---- MODULE Spec2Model ----
(***************************************************************************)
(* TimeLock (src/src/lib.rs): a single-owner contract that queues a call,  *)
(* lets it run only inside [timestamp, timestamp + GRACE_PERIOD], and can  *)
(* cancel it.  The model follows the public methods of `impl TimeLock`     *)
(* one action per method, plus one action per return of an outbound call   *)
(* (the callee may call back into the contract before it returns) and one  *)
(* action for the block clock.                                             *)
(*                                                                         *)
(* The state is the contract storage as the methods write it.  What the    *)
(* host does with a call that returned Err (lib.rs has no code for it) is  *)
(* outside the model.                                                      *)
(***************************************************************************)
EXTENDS Integers, Sequences, FiniteSets, TLC

(***************************************************************************)
(* Program constants, lib.rs 76-81.                                        *)
(***************************************************************************)
MIN_DELAY == 10
MAX_DELAY == 1000
GRACE_PERIOD == 1000

(***************************************************************************)
(* Bounds of the model.                                                    *)
(*   U256_LIMIT  stands for 2^256, the modulus of U256 arithmetic; the     *)
(*               width is scaled down to fit 32-bit model integers.        *)
(*   StartTime   the block time around which the clock values are laid.    *)
(*   MaxDepth    how many outbound calls may be in progress at once.       *)
(***************************************************************************)
U256_LIMIT == 1048576
StartTime == 1000
MaxDepth == 1

U256_MAX == U256_LIMIT - 1

\* U256 `+` (lib.rs 154, 155, 207, 208): modular.
U256Add(a, b) == (a + b) % U256_LIMIT

(***************************************************************************)
(* Addresses.  Address::default() is the zero address (lib.rs 88).         *)
(***************************************************************************)
ZeroAddress == 0
Callers == {ZeroAddress, 1, 2}
Targets == {3}

(***************************************************************************)
(* Byte strings are sequences of byte values.                              *)
(***************************************************************************)
FuncFoo == <<102, 111, 111>>
FuncFo == <<102, 111>>
NoData == << >>
DataO == <<111>>

\* The two scheduled times that sit on the edges of the delay window of a
\* queue() at StartTime.
TsMin == StartTime + MIN_DELAY
TsMax == StartTime + MAX_DELAY

Desc(t, v, f, b, ts) ==
    [target |-> t, value |-> v, func |-> f, data |-> b, timestamp |-> ts]

\* The argument tuples (target, value, func, data, timestamp) the callers use.
Descriptors ==
    { Desc(3, 0, FuncFoo, NoData, TsMin),
      Desc(2, 1, FuncFo, DataO, TsMax) }

\* block::timestamp() values: the edges of the queue window of both scheduled
\* times and of the execute window of the first; the second is reached too.
ClockPoints ==
    { StartTime - 1, StartTime, StartTime + 1,
      TsMin - 1, TsMin, TsMax,
      TsMin + GRACE_PERIOD, TsMin + GRACE_PERIOD + 1 }

\* Descriptors that differ from the first in one argument, or in where func
\* ends and data begins.
IdBase == Desc(3, 0, FuncFoo, NoData, TsMin)

IdVariants ==
    { Desc(2, 0, FuncFoo, NoData, TsMin),
      Desc(3, 1, FuncFoo, NoData, TsMin),
      Desc(3, 0, FuncFo, NoData, TsMin),
      Desc(3, 0, FuncFoo, DataO, TsMin),
      Desc(3, 0, FuncFoo, NoData, TsMax),
      Desc(3, 0, FuncFo, DataO, TsMin) }

IdDescriptors == {IdBase} \cup IdVariants

\* block::timestamp() is a u64 (lib.rs 154, 202, 207), scaled down here as
\* U256 is: the last instants of the clock, and timestamps up to the largest
\* U256.
U64_LIMIT == 4096
U64_MAX == U64_LIMIT - 1

WideClock == {U64_MAX - MAX_DELAY, U64_MAX - MIN_DELAY, U64_MAX}

WideDescriptors ==
    { Desc(3, 0, FuncFoo, NoData, ts) :
          ts \in {U64_MAX, U64_MAX + MAX_DELAY, U256_MAX - GRACE_PERIOD, U256_MAX} }

\* Every descriptor a caller of the model passes.
KnownDescriptors == Descriptors \cup IdDescriptors \cup WideDescriptors

(***************************************************************************)
(* get_tx_id, lib.rs 100-124.                                              *)
(***************************************************************************)
WordSize == 32

\* Number of 32-byte words that hold n bytes.
WordsFor(n) == (n + WordSize - 1) \div WordSize

\* A byte string right-padded with zero bytes to whole words.
PadRight(b) ==
    [i \in 1..(WordsFor(Len(b)) * WordSize) |-> IF i <= Len(b) THEN b[i] ELSE 0]

\* The tail of a dynamic `bytes` value: its length, then its padded bytes.
EncodeBytes(b) == <<Len(b)>> \o PadRight(b)

\* Bytes the tail of a dynamic value takes.
TailSize(b) == WordSize + WordsFor(Len(b)) * WordSize

\* Faulty: the fields are packed one after the other, with no offsets and no
\* lengths.
abi_encode_sequence_Faulty(t, v, f, b, ts) == <<t, v>> \o f \o b \o <<ts>>

\* TxIdHashType::abi_encode_sequence (lib.rs 13, 112): five head words
\* (address, uint256, offset of func, offset of data, uint256), then the
\* tails of func and data.
abi_encode_sequence(t, v, f, b, ts) ==
    <<t, v, 5 * WordSize, 5 * WordSize + TailSize(f), ts>>
        \o EncodeBytes(f) \o EncodeBytes(b)

\* Keccak256 (lib.rs 114-118, 219-222): a digest that is a function of the
\* bytes hashed and of nothing else; distinct inputs give distinct digests.
Keccak256(bytes) == <<"keccak256", bytes>>

get_tx_id(t, v, f, b, ts) == Keccak256(abi_encode_sequence(t, v, f, b, ts))

\* get_tx_id of each descriptor, computed once.
TxIdTable ==
    [d \in KnownDescriptors |->
        get_tx_id(d.target, d.value, d.func, d.data, d.timestamp)]

\* lib.rs 147, 192, 269: self.get_tx_id(target, value, func, data, timestamp)
TxIdOf(d) == TxIdTable[d]

TxIds == { TxIdOf(d) : d \in Descriptors }

\* lib.rs 219-224: first four bytes of the hash of func, then data.
Selector(f) == <<"first4", Keccak256(f)>>
Calldata(f, b) == [selector |-> Selector(f), data |-> b]

(***************************************************************************)
(* State.                                                                  *)
(***************************************************************************)
VARIABLES
    owner,      \* storage slot `owner` (lib.rs 50)
    queued,     \* storage mapping `queued` (lib.rs 51)
    now,        \* block::timestamp()
    stack,      \* the methods suspended in an outbound call, innermost last
    last,       \* what this step ran: the method, whether it was entered or
                \* resumed after its outbound call, msg::sender(), the
                \* arguments, the result
    emitted,    \* the events this step logged (evm::log)
    dispatched, \* the outbound calls this step dispatched (call)
    waited,     \* history: the ids some successful queue() has set Queued at
                \* a block time of at most timestamp - MIN_DELAY
    ran,        \* history: the ids for which some execute has reached its
                \* outbound call
    firstInit   \* history: the caller of the first initialize() that returned
                \* Ok, << >> before it

vars ==
    <<owner, queued, now, stack, last, emitted, dispatched, waited, ran,
      firstInit>>

Ok == <<"Ok">>
InCall == <<"InCall">>

\* A method entered by caller c, run to its result or into its outbound call.
Step(op, c, args, res) ==
    [op |-> op, at |-> "entry", caller |-> c, args |-> args, result |-> res]

\* A method resumed when its outbound call returned, run to its result.  The
\* code after the call does not read msg::sender().
Resume(op, args, res) ==
    [op |-> op, at |-> "return", caller |-> ZeroAddress, args |-> args,
     result |-> res]

Init ==
    /\ owner = ZeroAddress
    /\ queued = [id \in TxIds |-> FALSE]
    /\ now = StartTime - 1
    /\ stack = << >>
    /\ last = Step("deploy", ZeroAddress, << >>, Ok)
    /\ emitted = << >>
    /\ dispatched = << >>
    /\ waited = [id \in TxIds |-> FALSE]
    /\ ran = [id \in TxIds |-> FALSE]
    /\ firstInit = << >>

(***************************************************************************)
(* The checks of the methods.  Each `Faulty` operator is the check with a  *)
(* plausible slip in it; the properties at the end of the module are       *)
(* expected to tell the two apart.                                         *)
(***************************************************************************)
\* lib.rs 88: self.owner.get() != Address::default()
Initialized == owner # ZeroAddress

\* Faulty: the owner check is missing.
NotOwner_Faulty(c) == FALSE

\* lib.rs 141, 186, 263: self.owner.get() != msg::sender()
NotOwner(c) == owner # c

\* Faulty: the duplicate check is missing.
AlreadyQueued_Faulty(tx_id) == FALSE

\* lib.rs 149: self.queued.get(tx_id)
AlreadyQueued(tx_id) == queued[tx_id]

\* Faulty: the queued check is missing.
NotQueued_Faulty(tx_id) == FALSE

\* lib.rs 194, 271: !self.queued.get(tx_id)
NotQueued(tx_id) == ~queued[tx_id]

\* Faulty: the upper edge of the window is not checked.
NotInRange_FaultyUpper(timestamp) == timestamp < U256Add(now, MIN_DELAY)

\* Faulty: both edges of the window are excluded.
NotInRange_Faulty(timestamp) ==
    \/ timestamp <= U256Add(now, MIN_DELAY)
    \/ timestamp >= U256Add(now, MAX_DELAY)

\* lib.rs 154-155: the timestamp is outside [now + MIN_DELAY, now + MAX_DELAY]
NotInRange(timestamp) ==
    \/ timestamp < U256Add(now, MIN_DELAY)
    \/ timestamp > U256Add(now, MAX_DELAY)

\* Faulty: the timestamp is not waited for.
NotPassed_Faulty(timestamp) == FALSE

\* lib.rs 202
NotPassed(timestamp) == now < timestamp

\* Faulty: the grace period never ends.
Expired_FaultyNever(timestamp) == FALSE

\* Faulty: the last instant of the grace period is excluded.
Expired_Faulty(timestamp) == now >= U256Add(timestamp, GRACE_PERIOD)

\* lib.rs 207
Expired(timestamp) == now > U256Add(timestamp, GRACE_PERIOD)

\* Faulty: the flag is not cleared before the call.
FlagsBeforeCall_Faulty(tx_id) == queued

\* lib.rs 211-213: the flags as execute leaves them before its outbound call.
FlagsBeforeCall(tx_id) == [queued EXCEPT ![tx_id] = FALSE]

(***************************************************************************)
(* initialize, lib.rs 87-93.                                               *)
(***************************************************************************)
initialize(c) ==
    /\ IF Initialized
       THEN /\ last' = Step("initialize", c, << >>, <<"AlreadyInitialized">>)
            /\ owner' = owner
       ELSE /\ owner' = c
            /\ last' = Step("initialize", c, << >>, Ok)
    /\ firstInit' = IF ~Initialized /\ firstInit = << >>
                    THEN <<c>> ELSE firstInit
    /\ emitted' = << >>
    /\ dispatched' = << >>
    /\ UNCHANGED <<queued, now, stack, waited, ran>>

\* owner(), lib.rs 95-97.
\* The read-only methods below do not read msg::sender().
ownerGetter ==
    /\ last' = Step("owner", ZeroAddress, << >>, <<"Ok", owner>>)
    /\ emitted' = << >>
    /\ dispatched' = << >>
    /\ UNCHANGED <<owner, queued, now, stack, waited, ran, firstInit>>

\* get_tx_id as a public method, lib.rs 100-124.
getTxIdCall(d) ==
    /\ last' = Step("get_tx_id", ZeroAddress, <<d>>, <<"Ok", TxIdOf(d)>>)
    /\ emitted' = << >>
    /\ dispatched' = << >>
    /\ UNCHANGED <<owner, queued, now, stack, waited, ran, firstInit>>

\* deposit, lib.rs 127-129.
deposit ==
    /\ last' = Step("deposit", ZeroAddress, << >>, Ok)
    /\ emitted' = << >>
    /\ dispatched' = << >>
    /\ UNCHANGED <<owner, queued, now, stack, waited, ran, firstInit>>

(***************************************************************************)
(* queue, lib.rs 132-174.                                                  *)
(***************************************************************************)
QueueEvent(id, d) ==
    [name |-> "Queue", txId |-> id, target |-> d.target, value |-> d.value,
     func |-> d.func, data |-> d.data, timestamp |-> d.timestamp]

\* Faulty: the flag is written before the range check, and stays written
\* when the check fails.
queue_Faulty(c, d) ==
    LET tx_id == TxIdOf(d)
        fail(res) ==
            /\ last' = Step("queue", c, <<d>>, res)
            /\ emitted' = << >>
            /\ UNCHANGED <<queued, waited>>
    IN  /\ IF NotOwner(c)
           THEN fail(<<"NotOwnerError">>)
           ELSE IF AlreadyQueued(tx_id)
           THEN fail(<<"AlreadyQueuedError", tx_id>>)
           ELSE IF NotInRange(d.timestamp)
           THEN /\ last' = Step("queue", c, <<d>>,
                                <<"TimestampNotInRangeError", now, d.timestamp>>)
                /\ emitted' = << >>
                /\ queued' = [queued EXCEPT ![tx_id] = TRUE]
                /\ UNCHANGED waited
           ELSE /\ queued' = [queued EXCEPT ![tx_id] = TRUE]
                /\ waited' = [waited EXCEPT ![tx_id] = (now + MIN_DELAY <= d.timestamp)]
                /\ emitted' = <<QueueEvent(tx_id, d)>>
                /\ last' = Step("queue", c, <<d>>, Ok)
        /\ dispatched' = << >>
        /\ UNCHANGED <<owner, now, stack, ran, firstInit>>

queue(c, d) ==
    LET tx_id == TxIdOf(d)
        fail(res) ==
            /\ last' = Step("queue", c, <<d>>, res)
            /\ emitted' = << >>
            /\ UNCHANGED <<queued, waited>>
    IN  /\ IF NotOwner(c)
           THEN fail(<<"NotOwnerError">>)
           ELSE IF AlreadyQueued(tx_id)
           THEN fail(<<"AlreadyQueuedError", tx_id>>)
           ELSE IF NotInRange(d.timestamp)
           THEN fail(<<"TimestampNotInRangeError", now, d.timestamp>>)
           ELSE /\ queued' = [queued EXCEPT ![tx_id] = TRUE]
                /\ waited' = [waited EXCEPT ![tx_id] = (now + MIN_DELAY <= d.timestamp)]
                /\ emitted' = <<QueueEvent(tx_id, d)>>
                /\ last' = Step("queue", c, <<d>>, Ok)
        /\ dispatched' = << >>
        /\ UNCHANGED <<owner, now, stack, ran, firstInit>>

(***************************************************************************)
(* execute, lib.rs 177-243.  The method runs up to the outbound call of    *)
(* line 227 in one step; executeReturn is the rest of it (lines 228-242),  *)
(* taken when the callee returns.                                          *)
(***************************************************************************)
ExecuteEvent(id, d) ==
    [name |-> "Execute", txId |-> id, target |-> d.target, value |-> d.value,
     func |-> d.func, data |-> d.data, timestamp |-> d.timestamp]

OutCall(t, v, cd) == [target |-> t, value |-> v, calldata |-> cd]

Frame(op, args) == [op |-> op, args |-> args]

\* Faulty: the window is checked before the flag.
execute_Faulty(c, d) ==
    LET tx_id == TxIdOf(d)
        fail(res) ==
            /\ last' = Step("execute", c, <<d>>, res)
            /\ dispatched' = << >>
            /\ UNCHANGED <<queued, stack, ran>>
    IN  /\ IF NotOwner(c)
           THEN fail(<<"NotOwnerError">>)
           ELSE IF NotPassed(d.timestamp)
           THEN fail(<<"TimestampNotPassedError", now, d.timestamp>>)
           ELSE IF Expired(d.timestamp)
           THEN fail(<<"TimestampExpiredError", now,
                       U256Add(d.timestamp, GRACE_PERIOD)>>)
           ELSE IF NotQueued(tx_id)
           THEN fail(<<"NotQueuedError", tx_id>>)
           ELSE /\ Len(stack) < MaxDepth
                /\ queued' = FlagsBeforeCall(tx_id)
                /\ dispatched' =
                       <<OutCall(d.target, d.value, Calldata(d.func, d.data))>>
                /\ stack' = Append(stack, Frame("execute", <<d>>))
                /\ ran' = [ran EXCEPT ![tx_id] = TRUE]
                /\ last' = Step("execute", c, <<d>>, InCall)
        /\ emitted' = << >>
        /\ UNCHANGED <<owner, now, waited, firstInit>>

execute(c, d) ==
    LET tx_id == TxIdOf(d)
        fail(res) ==
            /\ last' = Step("execute", c, <<d>>, res)
            /\ dispatched' = << >>
            /\ UNCHANGED <<queued, stack, ran>>
    IN  /\ IF NotOwner(c)
           THEN fail(<<"NotOwnerError">>)
           ELSE IF NotQueued(tx_id)
           THEN fail(<<"NotQueuedError", tx_id>>)
           ELSE IF NotPassed(d.timestamp)
           THEN fail(<<"TimestampNotPassedError", now, d.timestamp>>)
           ELSE IF Expired(d.timestamp)
           THEN fail(<<"TimestampExpiredError", now,
                       U256Add(d.timestamp, GRACE_PERIOD)>>)
           ELSE /\ Len(stack) < MaxDepth
                /\ queued' = FlagsBeforeCall(tx_id)
                /\ dispatched' =
                       <<OutCall(d.target, d.value, Calldata(d.func, d.data))>>
                /\ stack' = Append(stack, Frame("execute", <<d>>))
                /\ ran' = [ran EXCEPT ![tx_id] = TRUE]
                /\ last' = Step("execute", c, <<d>>, InCall)
        /\ emitted' = << >>
        /\ UNCHANGED <<owner, now, waited, firstInit>>

Top == stack[Len(stack)]
Pop == SubSeq(stack, 1, Len(stack) - 1)

\* Faulty: the Execute event is logged before the result of the call is
\* looked at.
executeReturn_FaultyLog(success) ==
    /\ stack # << >>
    /\ Top.op = "execute"
    /\ stack' = Pop
    /\ emitted' = <<ExecuteEvent(TxIdOf(Top.args[1]), Top.args[1])>>
    /\ IF success
       THEN last' = Resume("execute", Top.args, Ok)
       ELSE last' = Resume("execute", Top.args, <<"TxFailedError">>)
    /\ dispatched' = << >>
    /\ UNCHANGED <<owner, queued, now, waited, ran, firstInit>>

\* Faulty: a failed call puts the flag back.
executeReturn_Faulty(success) ==
    /\ stack # << >>
    /\ Top.op = "execute"
    /\ stack' = Pop
    /\ IF success
       THEN /\ emitted' = <<ExecuteEvent(TxIdOf(Top.args[1]), Top.args[1])>>
            /\ last' = Resume("execute", Top.args, Ok)
            /\ queued' = queued
       ELSE /\ emitted' = << >>
            /\ last' = Resume("execute", Top.args, <<"TxFailedError">>)
            /\ queued' = [queued EXCEPT ![TxIdOf(Top.args[1])] = TRUE]
    /\ dispatched' = << >>
    /\ UNCHANGED <<owner, now, waited, ran, firstInit>>

\* lib.rs 227-242: the match on the result of the call.
executeReturn(success) ==
    /\ stack # << >>
    /\ Top.op = "execute"
    /\ stack' = Pop
    /\ IF success
       THEN /\ emitted' = <<ExecuteEvent(TxIdOf(Top.args[1]), Top.args[1])>>
            /\ last' = Resume("execute", Top.args, Ok)
       ELSE /\ emitted' = << >>
            /\ last' = Resume("execute", Top.args, <<"TxFailedError">>)
    /\ dispatched' = << >>
    /\ UNCHANGED <<owner, queued, now, waited, ran, firstInit>>

(***************************************************************************)
(* executeV2, lib.rs 245-252: the call of lines 246-250, then Ok(()) of    *)
(* line 251 whatever the call returned.                                    *)
(***************************************************************************)
EmptyCalldata == [selector |-> << >>, data |-> << >>]

executeV2(c, target) ==
    /\ Len(stack) < MaxDepth
    /\ dispatched' = <<OutCall(target, 1, EmptyCalldata)>>
    /\ stack' = Append(stack, Frame("executeV2", <<target>>))
    /\ last' = Step("executeV2", c, <<target>>, InCall)
    /\ emitted' = << >>
    /\ UNCHANGED <<owner, queued, now, waited, ran, firstInit>>

executeV2Return(success) ==
    /\ stack # << >>
    /\ Top.op = "executeV2"
    /\ stack' = Pop
    /\ last' = Resume("executeV2", Top.args, Ok)
    /\ emitted' = << >>
    /\ dispatched' = << >>
    /\ UNCHANGED <<owner, queued, now, waited, ran, firstInit>>

(***************************************************************************)
(* cancel, lib.rs 254-286.                                                 *)
(***************************************************************************)
CancelEvent(id) == [name |-> "Cancel", txId |-> id]

\* Faulty: cancel refuses an expired entry, as execute does.
cancel_Faulty(c, d) ==
    LET tx_id == TxIdOf(d)
        fail(res) ==
            /\ last' = Step("cancel", c, <<d>>, res)
            /\ emitted' = << >>
            /\ UNCHANGED queued
    IN  /\ IF NotOwner(c)
           THEN fail(<<"NotOwnerError">>)
           ELSE IF NotQueued(tx_id)
           THEN fail(<<"NotQueuedError", tx_id>>)
           ELSE IF Expired(d.timestamp)
           THEN fail(<<"TimestampExpiredError", now,
                       U256Add(d.timestamp, GRACE_PERIOD)>>)
           ELSE /\ queued' = [queued EXCEPT ![tx_id] = FALSE]
                /\ emitted' = <<CancelEvent(tx_id)>>
                /\ last' = Step("cancel", c, <<d>>, Ok)
        /\ dispatched' = << >>
        /\ UNCHANGED <<owner, now, stack, waited, ran, firstInit>>

cancel(c, d) ==
    LET tx_id == TxIdOf(d)
        fail(res) ==
            /\ last' = Step("cancel", c, <<d>>, res)
            /\ emitted' = << >>
            /\ UNCHANGED queued
    IN  /\ IF NotOwner(c)
           THEN fail(<<"NotOwnerError">>)
           ELSE IF NotQueued(tx_id)
           THEN fail(<<"NotQueuedError", tx_id>>)
           ELSE /\ queued' = [queued EXCEPT ![tx_id] = FALSE]
                /\ emitted' = <<CancelEvent(tx_id)>>
                /\ last' = Step("cancel", c, <<d>>, Ok)
        /\ dispatched' = << >>
        /\ UNCHANGED <<owner, now, stack, waited, ran, firstInit>>

(***************************************************************************)
(* The block clock: block::timestamp() does not change while a transaction *)
(* runs and does not go back from one block to the next.                   *)
(***************************************************************************)
tick(t) ==
    /\ stack = << >>
    /\ t > now
    /\ now' = t
    /\ last' = Step("tick", ZeroAddress, << >>, Ok)
    /\ emitted' = << >>
    /\ dispatched' = << >>
    /\ UNCHANGED <<owner, queued, stack, waited, ran, firstInit>>

Next ==
    \/ \E c \in Callers : initialize(c)
    \/ ownerGetter
    \/ \E d \in Descriptors : getTxIdCall(d)
    \/ deposit
    \/ \E c \in Callers, d \in Descriptors : queue(c, d)
    \/ \E c \in Callers, d \in Descriptors : execute(c, d)
    \/ \E success \in BOOLEAN : executeReturn(success)
    \/ \E c \in Callers, t \in Targets : executeV2(c, t)
    \/ \E success \in BOOLEAN : executeV2Return(success)
    \/ \E c \in Callers, d \in Descriptors : cancel(c, d)
    \/ \E t \in ClockPoints : tick(t)

Spec == Init /\ [][Next]_vars

(***************************************************************************)
(* The same methods run on two descriptors that differ in one argument     *)
(* (or in where func ends and data begins), to see whether get_tx_id keeps *)
(* them apart.                                                             *)
(***************************************************************************)
\* The id of each of these descriptors.
IdTable == [d \in IdDescriptors |-> TxIdOf(d)]

\* The descriptors whose flag the storage of this run holds.
Pair == { d \in IdDescriptors : IdTable[d] \in DOMAIN queued }

InitId ==
    \E v \in IdVariants :
        /\ owner = ZeroAddress
        /\ queued = [id \in {TxIdOf(IdBase), TxIdOf(v)} |-> FALSE]
        /\ now = StartTime - 1
        /\ stack = << >>
        /\ last = Step("deploy", ZeroAddress, << >>, Ok)
        /\ emitted = << >>
        /\ dispatched = << >>
        /\ waited = [id \in {TxIdOf(IdBase), TxIdOf(v)} |-> FALSE]
        /\ ran = [id \in {TxIdOf(IdBase), TxIdOf(v)} |-> FALSE]
        /\ firstInit = << >>

NextId ==
    \/ \E c \in Callers \ {ZeroAddress} : initialize(c)
    \/ \E d \in Pair : getTxIdCall(d)
    \/ \E c \in Callers \ {ZeroAddress}, d \in Pair : queue(c, d)
    \/ \E c \in Callers \ {ZeroAddress}, d \in Pair : execute(c, d)
    \/ \E success \in BOOLEAN : executeReturn(success)
    \/ \E c \in Callers \ {ZeroAddress}, d \in Pair : cancel(c, d)
    \/ \E t \in ClockPoints : tick(t)

SpecId == InitId /\ [][NextId]_vars

(***************************************************************************)
(* The same methods at the end of the range of the clock, with timestamps  *)
(* up to the largest U256: block::timestamp() is a u64 (lib.rs 154, 202,   *)
(* 207), scaled down here as U256 is.                                      *)
(***************************************************************************)
WideIds == { TxIdOf(d) : d \in WideDescriptors }

InitWide ==
    /\ owner = ZeroAddress
    /\ queued = [id \in WideIds |-> FALSE]
    /\ now = U64_MAX - MAX_DELAY - 1
    /\ stack = << >>
    /\ last = Step("deploy", ZeroAddress, << >>, Ok)
    /\ emitted = << >>
    /\ dispatched = << >>
    /\ waited = [id \in WideIds |-> FALSE]
    /\ ran = [id \in WideIds |-> FALSE]
    /\ firstInit = << >>

NextWide ==
    \/ \E c \in Callers \ {ZeroAddress} : initialize(c)
    \/ \E c \in Callers \ {ZeroAddress}, d \in WideDescriptors : queue(c, d)
    \/ \E c \in Callers \ {ZeroAddress}, d \in WideDescriptors : execute(c, d)
    \/ \E success \in BOOLEAN : executeReturn(success)
    \/ \E c \in Callers \ {ZeroAddress}, d \in WideDescriptors : cancel(c, d)
    \/ \E t \in WideClock : tick(t)

SpecWide == InitWide /\ [][NextWide]_vars

(***************************************************************************)
(* Properties.                                                             *)
(***************************************************************************)
\* The descriptor a method was called with (queue, execute, cancel).
ArgOf(step) == step.args[1]

\* The step entered method op (it did not resume it after a call).
Entered(step, op) == step.at = "entry" /\ step.op = op

InExecuteWindow(d, t) ==
    d.timestamp <= t /\ t <= d.timestamp + GRACE_PERIOD

\* C1: every outbound call the contract dispatches is the call of a
\* descriptor that a successful queue() set Queued at a block time of at most
\* timestamp - MIN_DELAY, and is dispatched at a block time inside
\* [timestamp, timestamp + GRACE_PERIOD]; execute and executeV2 alike.
C1_DispatchOnlyQueuedInWindow ==
    \A i \in 1..Len(dispatched) :
        \E d \in Descriptors :
            /\ dispatched[i] = OutCall(d.target, d.value, Calldata(d.func, d.data))
            /\ waited[TxIdOf(d)]
            /\ InExecuteWindow(d, now)

\* C2: queue, execute and cancel entered by a caller that is not the stored
\* owner fail with NotOwner and change neither the owner slot nor any queued
\* flag, dispatch no call and log no event.
C2_NonOwnerRejected ==
    [][ ( /\ last'.at = "entry"
          /\ last'.op \in {"queue", "execute", "cancel"}
          /\ last'.caller # owner )
        => ( /\ last'.result = <<"NotOwnerError">>
             /\ owner' = owner
             /\ queued' = queued
             /\ dispatched' = << >>
             /\ emitted' = << >> ) ]_vars

\* A non-owner's execute of a Queued descriptor inside its window was refused.
C2_Witness ==
    /\ Entered(last, "execute")
    /\ last.caller # owner
    /\ last.result = <<"NotOwnerError">>
    /\ queued[TxIdOf(ArgOf(last))]
    /\ InExecuteWindow(ArgOf(last), now)

\* C3: no method dispatches an outbound call for a caller that is not the
\* stored owner; executeV2 entered by a non-owner dispatches nothing.
C3_DispatchOnlyForOwner ==
    dispatched # << >> => (last.at = "entry" /\ last.caller = owner)

\* C4: once an initialize() has returned Ok, every initialize() entered later,
\* by whatever caller, fails with AlreadyInitialized, and the owner slot holds
\* the caller of that first initialize() in every later state.
C4_InitializeOneShot ==
    [][ firstInit # << >>
        => ( /\ owner' = firstInit[1]
             /\ Entered(last', "initialize")
                    => last'.result = <<"AlreadyInitialized">> ) ]_vars

\* C5: queue entered by the owner for an id that is Queued fails with
\* AlreadyQueuedError(id) at every block time and timestamp, and leaves the
\* owner slot and all flags as they were, with no Queue event.
C5_RequeueRejected ==
    [][ ( /\ Entered(last', "queue")
          /\ last'.caller = owner
          /\ queued[TxIdOf(ArgOf(last'))] )
        => ( /\ last'.result = <<"AlreadyQueuedError", TxIdOf(ArgOf(last'))>>
             /\ owner' = owner
             /\ queued' = queued
             /\ emitted' = << >> ) ]_vars

\* The owner queued a Queued id again, at a block time past the delay window
\* of its timestamp, and got AlreadyQueuedError.
C5_Witness ==
    /\ Entered(last, "queue")
    /\ last.caller = owner
    /\ last.result[1] = "AlreadyQueuedError"
    /\ queued[TxIdOf(ArgOf(last))]
    /\ now + MIN_DELAY > ArgOf(last).timestamp

\* C6: queue entered by the owner for an id that is not Queued returns Ok and
\* sets the flag exactly when now + 10 <= timestamp <= now + 1000; otherwise
\* it fails with TimestampNotInRangeError(now, timestamp) and the flag stays
\* false.
C6_QueueWindow ==
    [][ ( /\ Entered(last', "queue")
          /\ last'.caller = owner
          /\ ~queued[TxIdOf(ArgOf(last'))] )
        => LET d == ArgOf(last')
               id == TxIdOf(d)
           IN  IF now + 10 <= d.timestamp /\ d.timestamp <= now + 1000
               THEN /\ last'.result = Ok
                    /\ queued' = [queued EXCEPT ![id] = TRUE]
               ELSE /\ last'.result =
                           <<"TimestampNotInRangeError", now, d.timestamp>>
                    /\ queued' = queued ]_vars

\* A queue was accepted with its timestamp exactly MIN_DELAY ahead.
C6_Witness ==
    /\ Entered(last, "queue")
    /\ last.result = Ok
    /\ ArgOf(last).timestamp = now + MIN_DELAY
    /\ queued[TxIdOf(ArgOf(last))]

\* C7: execute entered by the owner for a Queued id fails with
\* TimestampNotPassedError when now < timestamp and with TimestampExpiredError
\* when now > timestamp + 1000, both leaving the flag true, and reaches its
\* outbound call for every now in [timestamp, timestamp + 1000].
C7_ExecuteWindow ==
    [][ ( /\ Entered(last', "execute")
          /\ last'.caller = owner
          /\ queued[TxIdOf(ArgOf(last'))] )
        => LET d == ArgOf(last')
           IN  IF now < d.timestamp
               THEN /\ last'.result[1] = "TimestampNotPassedError"
                    /\ queued' = queued
                    /\ dispatched' = << >>
               ELSE IF now > d.timestamp + 1000
               THEN /\ last'.result[1] = "TimestampExpiredError"
                    /\ queued' = queued
                    /\ dispatched' = << >>
               ELSE /\ last'.result = InCall
                    /\ dispatched' = <<OutCall(d.target, d.value,
                                               Calldata(d.func, d.data))>> ]_vars

\* An execute reached its outbound call at exactly timestamp + GRACE_PERIOD.
C7_Witness ==
    /\ Entered(last, "execute")
    /\ last.result = InCall
    /\ dispatched # << >>
    /\ now = ArgOf(last).timestamp + GRACE_PERIOD

\* C8: execute and cancel entered for an id whose flag is false are rejected
\* (NotQueuedError(id) for the owner), dispatch no call and change no flag;
\* and a flag that is false stays false until a queue of that id returns Ok.
\* So after an execute or a cancel has cleared an id, no later execute or
\* cancel of it goes through before it is queued again.
C8_NotQueuedRejected ==
    [][ /\ ( /\ last'.at = "entry"
             /\ last'.op \in {"execute", "cancel"}
             /\ ~queued[TxIdOf(ArgOf(last'))] )
           => ( /\ last'.result =
                       IF last'.caller = owner
                       THEN <<"NotQueuedError", TxIdOf(ArgOf(last'))>>
                       ELSE <<"NotOwnerError">>
                /\ dispatched' = << >>
                /\ queued' = queued )
        /\ \A id \in TxIds :
               (~queued[id] /\ queued'[id])
                   => ( /\ Entered(last', "queue")
                        /\ last'.result = Ok
                        /\ TxIdOf(ArgOf(last')) = id ) ]_vars

\* The owner's execute of an id that was queued before and has been cleared
\* since was refused with NotQueuedError inside the id's execute window.
C8_Witness ==
    /\ Entered(last, "execute")
    /\ last.caller = owner
    /\ last.result[1] = "NotQueuedError"
    /\ waited[TxIdOf(ArgOf(last))]
    /\ InExecuteWindow(ArgOf(last), now)
    /\ stack = << >>

\* The descriptors of the execute calls that are suspended in their outbound
\* call.
InProgress == { stack[i].args[1] : i \in { j \in 1..Len(stack) : stack[j].op = "execute" } }

\* C9: the flag of an id is false from the moment execute dispatches its
\* outbound call and for as long as that call is in progress, and an execute
\* of the same descriptor entered meanwhile is rejected and dispatches
\* nothing.
C9_ClearedBeforeCall ==
    [][ /\ \A d \in InProgress' : ~queued'[TxIdOf(d)]
        /\ ( /\ Entered(last', "execute")
             /\ ArgOf(last') \in InProgress )
           => ( /\ last'.result =
                       IF last'.caller = owner
                       THEN <<"NotQueuedError", TxIdOf(ArgOf(last'))>>
                       ELSE <<"NotOwnerError">>
                /\ dispatched' = << >> ) ]_vars

\* While execute(d) is in its outbound call, the owner's execute(d) was
\* refused with NotQueuedError.
C9_Witness ==
    /\ Entered(last, "execute")
    /\ last.caller = owner
    /\ ArgOf(last) \in InProgress
    /\ last.result[1] = "NotQueuedError"

\* C10: when the outbound call of execute fails, execute returns
\* TxFailedError without touching the flags, the flag of the id is false
\* after it, and an execute of the same descriptor entered next by the owner
\* fails with NotQueuedError and dispatches nothing.
C10_FailedCallLeavesCleared ==
    [][ /\ ( /\ last'.at = "return"
             /\ last'.op = "execute"
             /\ last'.result = <<"TxFailedError">> )
           => ( /\ queued' = queued
                /\ ~queued'[TxIdOf(ArgOf(last'))]
                /\ emitted' = << >> )
        /\ ( /\ last.at = "return"
             /\ last.op = "execute"
             /\ last.result = <<"TxFailedError">>
             /\ Entered(last', "execute")
             /\ ArgOf(last') = ArgOf(last)
             /\ last'.caller = owner )
           => ( /\ last'.result = <<"NotQueuedError", TxIdOf(ArgOf(last'))>>
                /\ dispatched' = << >> ) ]_vars

\* An execute has returned TxFailedError and the id it ran is not Queued.
C10_Witness ==
    /\ last.at = "return"
    /\ last.op = "execute"
    /\ last.result = <<"TxFailedError">>
    /\ waited[TxIdOf(ArgOf(last))]
    /\ ~queued[TxIdOf(ArgOf(last))]

\* The results that are errors (TimeLockError, lib.rs 56-74).
IsError(res) == res[1] \notin {"Ok", "InCall"}

\* C11: whatever error a method returns, the owner slot and the flags after
\* the failing call are what they were before it.  (execute reaches its
\* outbound call only with the flag of its id true, so for its TxFailedError
\* the flag has to be true again when it returns.)
C11_AllOrNothing ==
    [][ IsError(last'.result)
        => IF last'.at = "entry"
           THEN owner' = owner /\ queued' = queued
           ELSE owner' = owner /\ queued'[TxIdOf(ArgOf(last'))] ]_vars

\* C11 as amended: an error returned before any outbound call
\* (AlreadyInitialized, NotOwner, AlreadyQueued, TimestampNotInRange,
\* NotQueued, TimestampNotPassed, TimestampExpired) leaves the owner slot and
\* the flags as they were and comes with no event and no call; TxFailedError
\* writes nothing either when it is returned, but the flag that execute
\* cleared before the call stays cleared.
C11_OnlyTxFailedCommits ==
    [][ IsError(last'.result)
        => IF last'.at = "entry"
           THEN /\ owner' = owner
                /\ queued' = queued
                /\ emitted' = << >>
                /\ dispatched' = << >>
           ELSE /\ last'.result = <<"TxFailedError">>
                /\ owner' = owner
                /\ queued' = queued
                /\ ~queued'[TxIdOf(ArgOf(last'))] ]_vars

\* A queue was refused for its timestamp while another id was Queued.
C11_Witness ==
    /\ Entered(last, "queue")
    /\ last.result[1] = "TimestampNotInRangeError"
    /\ ~queued[TxIdOf(ArgOf(last))]
    /\ \E id \in DOMAIN queued : queued[id]

\* The arguments in which two descriptors differ.
DiffFields(d1, d2) ==
    { f \in {"target", "value", "func", "data", "timestamp"} : d1[f] # d2[f] }

\* Descriptors that differ have different ids.
IdsDistinct ==
    \A d1, d2 \in IdDescriptors : d1 # d2 => IdTable[d1] # IdTable[d2]

\* C12: descriptors that differ in an argument have different ids, the id
\* get_tx_id returns is the one under which the flag is kept, and queue,
\* execute and cancel of one descriptor leave the flag of every other
\* descriptor as it was.
C12_IdSeparatesDescriptors ==
    [][ /\ IdsDistinct
        /\ ( /\ last'.at = "entry"
             /\ last'.op \in {"queue", "execute", "cancel"} )
           => \A d2 \in Pair \ {ArgOf(last')} :
                  queued'[TxIdOf(d2)] = queued[TxIdOf(d2)]
        /\ ( Entered(last', "queue") /\ last'.result = Ok )
           => LET d == ArgOf(last')
              IN  queued'[get_tx_id(d.target, d.value, d.func, d.data,
                                    d.timestamp)] ]_vars

\* A descriptor was queued, and executed, while the descriptor that differs
\* from it in the data argument alone stayed not Queued.
C12_Witness ==
    /\ Entered(last, "execute")
    /\ last.result = InCall
    /\ \E d2 \in Pair :
           /\ DiffFields(d2, ArgOf(last)) = {"data"}
           /\ ~queued[TxIdOf(d2)]
           /\ ~waited[TxIdOf(d2)]

\* C13: a flag goes from false to true only in a queue of its id that returns
\* Ok, and from true to false only in an execute or a cancel of its id;
\* initialize, owner, get_tx_id, deposit, executeV2, the return of a call and
\* the passing of time leave every flag as it was, and queue, execute and
\* cancel leave the flag of every other id as it was.
C13_TransitionDiscipline ==
    [][ \A id \in DOMAIN queued :
            /\ (~queued[id] /\ queued'[id])
                   => ( /\ Entered(last', "queue")
                        /\ last'.result = Ok
                        /\ TxIdOf(ArgOf(last')) = id )
            /\ (queued[id] /\ ~queued'[id])
                   => ( /\ last'.at = "entry"
                        /\ last'.op \in {"execute", "cancel"}
                        /\ last'.result \in {Ok, InCall}
                        /\ TxIdOf(ArgOf(last')) = id )
            /\ ( \/ last'.at = "return"
                 \/ last'.op \in {"initialize", "owner", "get_tx_id", "deposit",
                                  "executeV2", "tick"}
                 \/ TxIdOf(ArgOf(last')) # id )
                   => queued'[id] = queued[id] ]_vars

\* An execute has returned TxFailedError, its id is not Queued, and another
\* id is.
C13_Witness ==
    /\ last.at = "return"
    /\ last.op = "execute"
    /\ last.result = <<"TxFailedError">>
    /\ ~queued[TxIdOf(ArgOf(last))]
    /\ \E id \in DOMAIN queued : queued[id]

\* C14: cancel looks at no clock: entered by the owner for a Queued id it
\* returns Ok, clears that flag and logs Cancel(id), before the timestamp,
\* inside the execute window and after timestamp + GRACE_PERIOD alike.
C14_CancelAtAnyTime ==
    [][ ( /\ Entered(last', "cancel")
          /\ last'.caller = owner
          /\ queued[TxIdOf(ArgOf(last'))] )
        => ( /\ last'.result = Ok
             /\ queued' = [queued EXCEPT ![TxIdOf(ArgOf(last'))] = FALSE]
             /\ emitted' = <<CancelEvent(TxIdOf(ArgOf(last')))>>
             /\ now' = now ) ]_vars

\* A cancel of an entry past its grace period returned Ok.
C14_Witness ==
    /\ Entered(last, "cancel")
    /\ last.result = Ok
    /\ now > ArgOf(last).timestamp + GRACE_PERIOD
    /\ emitted = <<CancelEvent(TxIdOf(ArgOf(last)))>>
    /\ ~queued[TxIdOf(ArgOf(last))]

\* C15: the events of a step are one Queue event when it is a queue that
\* returned Ok, one Cancel event when it is a cancel that returned Ok, one
\* Execute event when it is the return of an execute whose call succeeded,
\* and none in every other step, the step that returns an error included.
C15_EventsTrackSuccess ==
    emitted =
        IF Entered(last, "queue") /\ last.result = Ok
        THEN <<QueueEvent(TxIdOf(ArgOf(last)), ArgOf(last))>>
        ELSE IF Entered(last, "cancel") /\ last.result = Ok
        THEN <<CancelEvent(TxIdOf(ArgOf(last)))>>
        ELSE IF last.at = "return" /\ last.op = "execute" /\ last.result = Ok
        THEN <<ExecuteEvent(TxIdOf(ArgOf(last)), ArgOf(last))>>
        ELSE << >>

\* An execute whose call succeeded has logged its Execute event.
C15_Witness ==
    /\ last.at = "return"
    /\ last.op = "execute"
    /\ last.result = Ok
    /\ emitted = <<ExecuteEvent(TxIdOf(ArgOf(last)), ArgOf(last))>>

\* The first check that fails, for a call that several checks would refuse.
QueueOutcome(c, d) ==
    IF c # owner THEN "NotOwnerError"
    ELSE IF queued[TxIdOf(d)] THEN "AlreadyQueuedError"
    ELSE IF d.timestamp < now + MIN_DELAY \/ d.timestamp > now + MAX_DELAY
    THEN "TimestampNotInRangeError"
    ELSE "Ok"

ExecuteOutcome(c, d) ==
    IF c # owner THEN "NotOwnerError"
    ELSE IF ~queued[TxIdOf(d)] THEN "NotQueuedError"
    ELSE IF now < d.timestamp THEN "TimestampNotPassedError"
    ELSE IF now > d.timestamp + GRACE_PERIOD THEN "TimestampExpiredError"
    ELSE "InCall"

CancelOutcome(c, d) ==
    IF c # owner THEN "NotOwnerError"
    ELSE IF ~queued[TxIdOf(d)] THEN "NotQueuedError"
    ELSE "Ok"

\* C16: the checks run in a fixed order and the first that fails names the
\* error: NotOwner, AlreadyQueued, TimestampNotInRange in queue; NotOwner,
\* NotQueued, TimestampNotPassed, TimestampExpired in execute; NotOwner,
\* NotQueued in cancel.
C16_CheckOrder ==
    [][ /\ Entered(last', "queue")
           => last'.result[1] = QueueOutcome(last'.caller, ArgOf(last'))
        /\ Entered(last', "execute")
           => last'.result[1] = ExecuteOutcome(last'.caller, ArgOf(last'))
        /\ Entered(last', "cancel")
           => last'.result[1] = CancelOutcome(last'.caller, ArgOf(last')) ]_vars

\* The owner's execute of an id that is not Queued, entered after the grace
\* period of the descriptor, was refused with NotQueuedError.
C16_Witness ==
    /\ Entered(last, "execute")
    /\ last.caller = owner
    /\ Initialized
    /\ now > ArgOf(last).timestamp + GRACE_PERIOD
    /\ last.result[1] = "NotQueuedError"

\* C17: the clock does not go back, and once an execute of a descriptor has
\* reached its call (so whenever one has succeeded) the clock is at or past
\* the timestamp, every queue of that descriptor fails, its flag stays false
\* and no execute of it reaches a call again; a queue that returns Ok for an
\* id that was Queued before is entered before the timestamp, for an id that
\* no execute has run.
C17_NoRequeueAfterExecute ==
    [][ /\ now' >= now
        /\ \A d \in Descriptors :
               /\ ran[TxIdOf(d)]
                      => ( /\ now >= d.timestamp
                           /\ ~queued'[TxIdOf(d)]
                           /\ ( /\ last'.at = "entry"
                                /\ last'.op \in {"queue", "execute"}
                                /\ ArgOf(last') = d )
                              => IsError(last'.result) )
               /\ ( /\ Entered(last', "queue")
                    /\ ArgOf(last') = d
                    /\ last'.result = Ok
                    /\ waited[TxIdOf(d)] )
                      => ( /\ ~ran[TxIdOf(d)]
                           /\ now < d.timestamp ) ]_vars

\* After the execute of a descriptor succeeded, the owner's queue of it was
\* refused.
C17_Witness ==
    /\ Entered(last, "queue")
    /\ last.caller = owner
    /\ ran[TxIdOf(ArgOf(last))]
    /\ emitted = << >>
    /\ stack = << >>
    /\ last.result[1] = "TimestampNotInRangeError"

\* The descriptor is Queued and its grace period is over.
ExpiredEntry(d) == queued[TxIdOf(d)] /\ now > d.timestamp + GRACE_PERIOD

\* C18: once the grace period of a Queued id is over it stays over, every
\* execute of the id fails (with TimestampExpiredError when the owner enters
\* it) and dispatches nothing, and the flag stays true in every step but a
\* cancel of the id by the owner, which returns Ok and clears it.
C18_ExpiredUntilCancel ==
    [][ \A d \in Descriptors :
            ExpiredEntry(d)
            => ( /\ now' > d.timestamp + GRACE_PERIOD
                 /\ (Entered(last', "execute") /\ ArgOf(last') = d)
                        => ( /\ last'.result[1] =
                                    IF last'.caller = owner
                                    THEN "TimestampExpiredError"
                                    ELSE "NotOwnerError"
                             /\ dispatched' = << >> )
                 /\ queued'[TxIdOf(d)]
                        <=> ~( /\ Entered(last', "cancel")
                               /\ ArgOf(last') = d
                               /\ last'.caller = owner
                               /\ last'.result = Ok ) ) ]_vars

\* The owner's execute of an expired entry was refused and the entry is
\* still Queued.
C18_Witness ==
    /\ Entered(last, "execute")
    /\ last.caller = owner
    /\ last.result[1] = "TimestampExpiredError"
    /\ ExpiredEntry(ArgOf(last))

\* C19: while the owner slot holds the zero address, queue, execute and
\* cancel fail with NotOwnerError whoever calls, the zero address included;
\* so whenever the slot holds the zero address no id is Queued and no
\* execute has reached its call.
C19_NothingBeforeInitialize ==
    [][ /\ ( /\ owner = ZeroAddress
             /\ last'.at = "entry"
             /\ last'.op \in {"queue", "execute", "cancel"} )
           => last'.result = <<"NotOwnerError">>
        /\ owner' = ZeroAddress
           => \A id \in DOMAIN queued : ~queued'[id] /\ ~ran'[id] ]_vars

\* The steps of execute that evaluate timestamp + GRACE_PERIOD (lib.rs 207).
AddsGrace(step) ==
    Entered(step, "execute")
        /\ step.result[1] \in {"TimestampExpiredError", "InCall"}

\* C20: the additions of the window checks do not wrap.  The clock is at
\* most the largest u64, so now + MIN_DELAY and now + MAX_DELAY are below
\* 2^256; a Queued id has a timestamp of at most that u64 plus MAX_DELAY;
\* execute evaluates timestamp + GRACE_PERIOD only when that sum is below
\* 2^256; and a timestamp for which the sum would wrap is refused, by the
\* owner's queue with TimestampNotInRangeError and by the owner's execute
\* with NotQueuedError.
C20_NoOverflow ==
    [][ /\ now <= U64_MAX
        /\ now + MAX_DELAY < U256_LIMIT
        /\ U256Add(now, MIN_DELAY) = now + MIN_DELAY
        /\ U256Add(now, MAX_DELAY) = now + MAX_DELAY
        /\ \A d \in WideDescriptors :
               queued'[TxIdOf(d)] => d.timestamp <= U64_MAX + MAX_DELAY
        /\ AddsGrace(last')
           => ArgOf(last').timestamp + GRACE_PERIOD < U256_LIMIT
        /\ ( /\ last'.at = "entry"
             /\ last'.op \in {"queue", "execute"}
             /\ last'.caller = owner
             /\ ArgOf(last').timestamp + GRACE_PERIOD >= U256_LIMIT )
           => last'.result[1] =
                  IF last'.op = "queue"
                  THEN "TimestampNotInRangeError"
                  ELSE "NotQueuedError" ]_vars

\* At the last instant of the clock the owner's queue of the largest
\* timestamp was refused, while an entry with a timestamp past the end of
\* the clock is Queued.
C20_Witness ==
    /\ Entered(last, "queue")
    /\ last.caller = owner
    /\ now = U64_MAX
    /\ ArgOf(last).timestamp = U256_MAX
    /\ last.result[1] = "TimestampNotInRangeError"
    /\ \E d \in WideDescriptors :
           d.timestamp > U64_MAX /\ queued[TxIdOf(d)]

====
